---- MODULE Spec2Model ----
(***************************************************************************)
(* SanMusic backend: a FastAPI service over a document store and a local   *)
(* upload directory.  The model follows src/main.py handler by handler.    *)
(* The store client (module `database`) is an external collaborator whose  *)
(* contract is taken from the system description: create assigns the       *)
(* identifier and created_at, queryAll returns every document.             *)
(***************************************************************************)
EXTENDS Integers, Sequences, FiniteSets, TLC

VARIABLES
    db,        \* the store handle imported from `database`: None or a handle
    env,       \* the process environment: the set of variables that are set
    song,      \* the "song" collection, in insertion order
    nextOid,   \* the next identifier the store assigns
    now,       \* the wall clock, in clock ticks
    fs,        \* the upload directory: path -> bytes of the file there
    up,        \* the POST /songs/upload requests, one record per request
    resp,      \* the response of the request that completed last
    created,   \* history: the successful creations, oldest first
    writer     \* history: path -> the request whose write reached the file last

vars == <<db, env, song, nextOid, now, fs, up, resp, created, writer>>

\* Texts are sequences of characters (or of segments); Python's None is a
\* value of its own, different from every text and from the empty text
None == <<"None">>

\* Optional[UploadFile] = None
NoFile == [filename |-> None, bytes |-> <<>>]

\* before the first request completes
NoResponse == [req |-> "none", status |-> 0, body |-> <<>>]

----------------------------------------------------------------------------
(* Bounds of the model *)

MaxDocs == 3          \* documents in the collection
MaxNow == 3           \* last clock tick
MaxErrLen == 51       \* longest error text the store client raises
MaxColls == 11        \* most collections the store lists
MaxUploads == 2       \* POST /songs/upload requests

(* Program constants *)

ErrTextLimit == 50    \* str(e)[:50]
CollectionsLimit == 10 \* collections[:10]
TicksPerSecond == 2   \* resolution of the clock relative to int(timestamp())
DatetimeMin == -1     \* datetime.min: earlier than every timestamp

----------------------------------------------------------------------------
(* Python helpers *)

Min(a, b) == IF a < b THEN a ELSE b

\* the slice forgotten: the whole sequence
Take_all(s, n) == s

\* s[:n]
Take(s, n) == SubSeq(s, 1, Min(n, Len(s)))

\* a text of n characters
Text(n) == [i \in 1..n |-> "e"]

\* collection names c1..cn
Names(n) == [i \in 1..n |-> i]

\* `is not None` in place of truthiness: the empty text passes
Truthy_NotNone(s) == s # None

\* Python truthiness of Optional[str]: None and "" are falsy
Truthy(s) == s # None /\ s # <<>>

\* str(ObjectId)
Str(oid) == ToString(oid)

----------------------------------------------------------------------------
(* The store client *)

StoreReady == db # "None"

\* create_document(collection, data): dumps the model, stamps created_at,
\* inserts; returns the new identifier as a string
create_document_doc(data) ==
    [f \in DOMAIN data \cup {"_id", "created_at"} |->
        IF f = "_id" THEN nextOid
        ELSE IF f = "created_at" THEN now
        ELSE data[f]]

\* get_documents("song", {}): every document, in natural order
get_documents == song

----------------------------------------------------------------------------
(* Responses *)

Ok(req, body) == [req |-> req, status |-> 200, body |-> body]

HTTPException(req, code, detail) ==
    [req |-> req, status |-> code, body |-> [detail |-> detail]]

ServerError(req) ==
    [req |-> req, status |-> 500, body |-> "Internal Server Error"]

----------------------------------------------------------------------------
(* GET / *)

read_root ==
    /\ resp' = Ok("GET /", [message |-> "SanMusic backend running"])
    /\ UNCHANGED <<db, env, song, nextOid, now, fs, up, created, writer>>

----------------------------------------------------------------------------
(* GET /test *)

\* outcome of db.list_collection_names(): a list of names or an exception
Introspections ==
    {[raises |-> FALSE, names |-> Names(n)] : n \in {0, CollectionsLimit, MaxColls}}
    \cup {[raises |-> TRUE, text |-> Text(n)] :
              n \in {0, ErrTextLimit - 1, ErrTextLimit, MaxErrLen}}

\* lines 40-67; the status texts are written without their leading symbols.
\* The outer handler (lines 63-64) has nothing to catch: the inner one takes
\* every exception of the introspection.
test_database_response(intro) ==
    LET r0 == [backend |-> "Running",
               database |-> <<"Not Available">>,
               database_url |-> "None",
               database_name |-> "None",
               connection_status |-> "Not Connected",
               collections |-> <<>>]
        r1 == IF db # "None"
              THEN LET a == [r0 EXCEPT !.database = <<"Available">>,
                                       !.database_url = "Set",
                                       !.database_name = db,
                                       !.connection_status = "Connected"]
                   IN  IF intro.raises
                       THEN [a EXCEPT !.database =
                                <<"Connected but Error: ", Take(intro.text, ErrTextLimit)>>]
                       ELSE [a EXCEPT !.collections = Take(intro.names, CollectionsLimit),
                                      !.database = <<"Connected & Working">>]
              ELSE [r0 EXCEPT !.database = <<"Available but not initialized">>]
    IN  [r1 EXCEPT !.database_url = IF "DATABASE_URL" \in env THEN "Set" ELSE "Not Set",
                   !.database_name = IF "DATABASE_NAME" \in env THEN "Set" ELSE "Not Set"]

test_database(intro) ==
    /\ resp' = Ok("GET /test", test_database_response(intro))
    /\ UNCHANGED <<db, env, song, nextOid, now, fs, up, created, writer>>

----------------------------------------------------------------------------
(* GET /songs *)

\* d["id"] = str(d["_id"]): the identifier read but not popped
Project_keepsNative(d) ==
    [f \in DOMAIN d \cup {"id"} |->
        IF f = "id" THEN (IF "_id" \in DOMAIN d THEN Str(d._id) ELSE "")
        ELSE d[f]]

\* d["id"] = str(d.pop("_id", ""))
Project(d) ==
    [f \in (DOMAIN d \ {"_id"}) \cup {"id"} |->
        IF f = "id" THEN (IF "_id" \in DOMAIN d THEN Str(d._id) ELSE "")
        ELSE d[f]]

\* x.get("created_at", datetime.max): a missing timestamp sorts as the latest
SortKey_missingLatest(x) ==
    IF "created_at" \in DOMAIN x THEN x.created_at ELSE MaxNow + 1

\* x.get("created_at", datetime.min)
SortKey(x) == IF "created_at" \in DOMAIN x THEN x.created_at ELSE DatetimeMin

\* the stable insertion of x into a list sorted by key descending
RECURSIVE InsertDesc(_, _)
InsertDesc(sorted, x) ==
    IF sorted = <<>> THEN <<x>>
    ELSE IF SortKey(Head(sorted)) >= SortKey(x)
         THEN <<Head(sorted)>> \o InsertDesc(Tail(sorted), x)
         ELSE <<x>> \o sorted

\* list.sort(key=..., reverse=True): stable, equal keys keep their order
RECURSIVE SortDesc(_)
SortDesc(s) ==
    IF s = <<>> THEN <<>>
    ELSE InsertDesc(SortDesc(SubSeq(s, 1, Len(s) - 1)), s[Len(s)])

\* the query limited to one document
list_songs_result_first(docs) ==
    SortDesc([i \in 1..Min(1, Len(docs)) |-> Project(docs[i])])

\* lines 85-91: project every document, sort newest first
list_songs_result(docs) ==
    SortDesc([i \in 1..Len(docs) |-> Project(docs[i])])

\* the projection done on the stored documents themselves
list_songs_aliased ==
    /\ StoreReady
    /\ resp' = Ok("GET /songs", list_songs_result(get_documents))
    /\ song' = [i \in 1..Len(song) |-> Project(song[i])]
    /\ UNCHANGED <<db, env, nextOid, now, fs, up, created, writer>>

list_songs ==
    /\ \/ /\ StoreReady
          /\ resp' = Ok("GET /songs", list_songs_result(get_documents))
       \/ resp' = ServerError("GET /songs")
    /\ UNCHANGED <<db, env, song, nextOid, now, fs, up, created, writer>>

----------------------------------------------------------------------------
(* POST /songs *)

Titles == {<<>>, <<"A">>}
Artists == {<<"B">>}
AudioUrls == {None, <<>>, <<"http:", "x", "y.mp3">>}

\* the validated request bodies: title and artist are required strings
SongCreate ==
    [title : Titles, artist : Artists, album : {None}, coverUrl : {None},
     audioUrl : AudioUrls, duration : {None}]

create_song(body) ==
    IF ~Truthy(body.audioUrl)
    THEN /\ resp' = HTTPException("POST /songs", 400,
                        "audioUrl is required when not uploading a file.")
         /\ UNCHANGED <<db, env, song, nextOid, now, fs, up, created, writer>>
    ELSE \/ /\ StoreReady
            /\ Len(song) < MaxDocs
            /\ song' = Append(song, create_document_doc(body))
            /\ nextOid' = nextOid + 1
            /\ resp' = Ok("POST /songs", [id |-> Str(nextOid)])
            /\ created' = Append(created,
                   [req |-> "POST /songs", id |-> Str(nextOid), body |-> body])
            /\ UNCHANGED <<db, env, now, fs, up, writer>>
         \/ /\ resp' = ServerError("POST /songs")
            /\ UNCHANGED <<db, env, song, nextOid, now, fs, up, created, writer>>

----------------------------------------------------------------------------
(* POST /songs/upload *)

Requests == 1..MaxUploads

Idle == [pc |-> "idle"]

\* the decimal digits of a natural number: f"{n}"
RECURSIVE Digits(_)
Digits(n) ==
    IF n < 10 THEN <<ToString(n)>> ELSE Digits(n \div 10) \o <<ToString(n % 10)>>

\* filename.replace(' ', '_')
Replace(name) == [i \in 1..Len(name) |-> IF name[i] = " " THEN "_" ELSE name[i]]

\* int(datetime.utcnow().timestamp())
Timestamp == now \div TicksPerSecond

\* f"{int(datetime.utcnow().timestamp())}_{filename.replace(' ', '_')}"
SafeName(filename) == Digits(Timestamp) \o <<"_">> \o Replace(filename)

\* os.path.join(AUDIO_DIR, name), os.path.join(COVER_DIR, name)
AudioPath(name) == <<"uploads", "audio", name>>
CoverPath(name) == <<"uploads", "covers", name>>

\* f"/media/audio/{name}", f"/media/covers/{name}"
AudioUrl(name) == <<"media", "audio", name>>
CoverUrl(name) == <<"media", "covers", name>>

\* app.mount("/media", StaticFiles(directory=UPLOAD_DIR)): the file a URL serves
Served(url) == <<"uploads">> \o Tail(url)

\* open(path, "wb"): creates the file or truncates it
Open(files, path) == (path :> <<>>) @@ files

\* f.write(data) on a handle opened at offset 0, then close: the data
\* replaces the first Len(data) bytes of whatever the file holds by then
Write(files, path, data) ==
    (path :> (data \o SubSeq(files[path], Len(data) + 1, Len(files[path])))) @@ files

AudioFiles ==
    [filename : {<<"a", " ", "b">>, <<"a", "_", "b">>}, bytes : {<<1, 2>>, <<3>>}]
CoverFiles == {[filename |-> <<"c">>, bytes |-> <<7>>]}

\* the multipart forms: title, artist and audio are required
UploadForm ==
    [title : {<<"A">>}, artist : Artists, album : {None},
     audio : AudioFiles, cover : CoverFiles \cup {NoFile}]

InFlight == {q \in Requests : up[q].pc \in {"audio", "cover"}}

\* lines 128-136: build the Song, persist it, return the id and the URLs
upload_finish(r, files, wrote, cover_url) ==
    LET u == up[r]
        audio_url == AudioUrl(u.safe_audio_name)
        song_doc == [title |-> u.title, artist |-> u.artist, album |-> u.album,
                     coverUrl |-> cover_url, audioUrl |-> audio_url,
                     duration |-> None]
    IN  /\ fs' = files
        /\ writer' = (wrote :> r) @@ writer
        /\ \/ /\ StoreReady
              /\ Len(song) < MaxDocs
              /\ song' = Append(song, create_document_doc(song_doc))
              /\ nextOid' = nextOid + 1
              /\ resp' = Ok("POST /songs/upload",
                     [id |-> Str(nextOid), audioUrl |-> audio_url, coverUrl |-> cover_url])
              /\ up' = [up EXCEPT ![r] = [u EXCEPT !.pc = "done", !.status = 200]]
              /\ created' = Append(created,
                     [req |-> "POST /songs/upload", id |-> Str(nextOid),
                      body |-> song_doc, r |-> r])
           \/ /\ resp' = ServerError("POST /songs/upload")
              /\ up' = [up EXCEPT ![r] = [u EXCEPT !.pc = "done", !.status = 500]]
              /\ UNCHANGED <<song, nextOid, created>>
        /\ UNCHANGED <<db, env, now>>

\* lines 112-115: derive the audio name and open the file for writing
upload_song(r, form) ==
    /\ up[r].pc = "idle"
    /\ \A q \in Requests : q < r => up[q].pc # "idle"
    /\ LET name == SafeName(form.audio.filename)
       IN  /\ up' = [up EXCEPT ![r] =
                 [pc |-> "audio", title |-> form.title, artist |-> form.artist,
                  album |-> form.album, audio |-> form.audio, cover |-> form.cover,
                  safe_audio_name |-> name, safe_cover_name |-> None,
                  status |-> 0, during |-> InFlight]]
           /\ fs' = Open(fs, AudioPath(name))
           /\ writer' = writer
    /\ UNCHANGED <<db, env, song, nextOid, now, resp, created>>

\* line 116 after the read resumes, then lines 118-122 or 126-136
upload_write_audio(r) ==
    /\ up[r].pc = "audio"
    /\ LET u == up[r]
           written == Write(fs, AudioPath(u.safe_audio_name), u.audio.bytes)
       IN  IF u.cover # NoFile
           THEN LET cname == SafeName(u.cover.filename)
                IN  /\ up' = [up EXCEPT ![r] =
                                [u EXCEPT !.pc = "cover", !.safe_cover_name = cname]]
                    /\ fs' = Open(written, CoverPath(cname))
                    /\ writer' = (AudioPath(u.safe_audio_name) :> r) @@ writer
                    /\ UNCHANGED <<db, env, song, nextOid, now, resp, created>>
           ELSE upload_finish(r, written, AudioPath(u.safe_audio_name), None)

\* line 123 after the read resumes, then lines 124-136
upload_write_cover(r) ==
    /\ up[r].pc = "cover"
    /\ LET u == up[r]
       IN  upload_finish(r, Write(fs, CoverPath(u.safe_cover_name), u.cover.bytes),
                         CoverPath(u.safe_cover_name), CoverUrl(u.safe_cover_name))

----------------------------------------------------------------------------
(* The clock *)

Tick ==
    /\ now < MaxNow
    /\ now' = now + 1
    /\ UNCHANGED <<db, env, song, nextOid, fs, up, resp, created, writer>>

----------------------------------------------------------------------------

\* a document another client of the store inserted: no created_at
Legacy ==
    [_id |-> 1, title |-> <<"L">>, artist |-> <<"B">>,
     audioUrl |-> <<"http:", "x", "old.mp3">>]

Init ==
    /\ db \in {"None", "sanmusic"}
    /\ env \in SUBSET {"DATABASE_URL", "DATABASE_NAME"}
    /\ song \in {<<>>, <<Legacy>>}
    /\ nextOid = Len(song) + 1
    /\ now = 0
    /\ fs = [p \in {} |-> <<>>]
    /\ up = [r \in Requests |-> Idle]
    /\ resp = NoResponse
    /\ created = <<>>
    /\ writer = [p \in {} |-> 0]

(* The health endpoints *)
NextHealth ==
    \/ read_root
    \/ \E intro \in Introspections : test_database(intro)
    \/ Tick

SpecHealth == Init /\ [][NextHealth]_vars

(* The catalog: metadata-only creation and listing *)
NextCatalog ==
    \/ read_root
    \/ list_songs
    \/ \E body \in SongCreate : create_song(body)
    \/ Tick

SpecCatalog == Init /\ [][NextCatalog]_vars

(* Uploads *)
NextUpload ==
    \/ \E r \in Requests, form \in UploadForm : upload_song(r, form)
    \/ \E r \in Requests : upload_write_audio(r)
    \/ \E r \in Requests : upload_write_cover(r)
    \/ list_songs
    \/ Tick

\* an empty collection, no environment variable set
InitUpload == Init /\ env = {} /\ song = <<>>

SpecUpload == InitUpload /\ [][NextUpload]_vars

(* The whole service: every endpoint, one request of each shape, all of it
   within one reading of the clock *)
OneBody ==
    {b \in SongCreate : b.title = <<"A">> /\ b.audioUrl # <<>>}
OneForm ==
    {f \in UploadForm : f.audio = [filename |-> <<"a", " ", "b">>, bytes |-> <<1, 2>>]}
OneIntrospection ==
    {i \in Introspections : IF i.raises THEN Len(i.text) = 0 ELSE Len(i.names) = 0}

Next ==
    \/ read_root
    \/ \E intro \in OneIntrospection : test_database(intro)
    \/ list_songs
    \/ \E body \in OneBody : create_song(body)
    \/ \E r \in Requests, form \in OneForm : upload_song(r, form)
    \/ \E r \in Requests : upload_write_audio(r)
    \/ \E r \in Requests : upload_write_cover(r)

\* no environment variable set
InitService == Init /\ env = {}

Spec == InitService /\ [][Next]_vars

----------------------------------------------------------------------------
(* Properties of the catalog *)

\* the last request was a GET /songs that returned its listing
Listed == resp.req = "GET /songs" /\ resp.status = 200

\* where the record with this id stands in the listing (0: nowhere)
Position(id) ==
    LET at == {i \in 1..Len(resp.body) : resp.body[i].id = id}
    IN  IF at = {} THEN 0 ELSE CHOOSE i \in at : TRUE

\* the successful POST /songs requests so far
Posted == {k \in 1..Len(created) : created[k].req = "POST /songs"}

\* C1: a POST /songs whose audioUrl is null or the empty string answers 400
\* with the fixed message and leaves the collection as it was.
C1_MissingAudioUrlRejected ==
    [][\A body \in SongCreate :
          (body.audioUrl \in {None, <<>>} /\ create_song(body))
          => /\ resp'.status = 400
             /\ resp'.body = [detail |-> "audioUrl is required when not uploading a file."]
             /\ song' = song]_vars

C1_Witness ==
    /\ resp.req = "POST /songs"
    /\ resp.status = 400
    /\ Len(song) >= 1

\* C2: every song a POST /songs returned an id for appears in every later
\* listing exactly once, under that id, with the title, artist and audioUrl
\* that were submitted.
C2_CreatedSongListed ==
    Listed =>
        \A k \in Posted :
            /\ created[k].id # ""
            /\ Cardinality({i \in 1..Len(resp.body) : resp.body[i].id = created[k].id}) = 1
            /\ LET rec == resp.body[Position(created[k].id)]
               IN  /\ rec.title = created[k].body.title
                   /\ rec.artist = created[k].body.artist
                   /\ rec.audioUrl = created[k].body.audioUrl

C2_Witness ==
    /\ Listed
    /\ Cardinality(Posted) >= 2
    /\ created[1].body.title # created[2].body.title

\* C3: a listing is ordered by created_at descending, a record without
\* created_at standing after every record that has one, and it holds every
\* document of the collection exactly once.
C3_ListingSortedPermutation ==
    Listed =>
        /\ \A i \in 1..Len(resp.body), j \in 1..Len(resp.body) :
              i < j =>
                 LET a == resp.body[i]
                     b == resp.body[j]
                 IN  IF "created_at" \in DOMAIN a
                     THEN "created_at" \in DOMAIN b => a.created_at >= b.created_at
                     ELSE "created_at" \notin DOMAIN b
        /\ Len(resp.body) = Len(song)
        /\ \A j \in 1..Len(song) :
              Cardinality({i \in 1..Len(resp.body) :
                  /\ resp.body[i].id = ToString(song[j]._id)
                  /\ DOMAIN resp.body[i] = (DOMAIN song[j] \ {"_id"}) \cup {"id"}
                  /\ \A f \in DOMAIN song[j] \ {"_id"} : resp.body[i][f] = song[j][f]}) = 1

C3_Witness ==
    /\ Listed
    /\ Len(resp.body) = 3
    /\ "created_at" \notin DOMAIN resp.body[3]
    /\ resp.body[1].created_at > resp.body[2].created_at
    /\ resp.body[1].id = "3"

\* C4: of two songs, the one created later stands earlier in every later
\* listing, also when both carry the same created_at.
C4_LaterCreatedListedFirst ==
    Listed =>
        \A x \in 1..Len(created), y \in 1..Len(created) :
            x < y => Position(created[y].id) < Position(created[x].id)

\* C5: no record of a listing carries _id, and each carries as id the string
\* form of its document's identifier.
C5_IdProjected ==
    Listed =>
        \A i \in 1..Len(resp.body) :
            /\ "_id" \notin DOMAIN resp.body[i]
            /\ "id" \in DOMAIN resp.body[i]
            /\ \E j \in 1..Len(song) :
                  /\ resp.body[i].id = ToString(song[j]._id)
                  /\ \A f \in DOMAIN song[j] \ {"_id"} : resp.body[i][f] = song[j][f]

C5_Witness ==
    /\ Listed
    /\ Len(resp.body) >= 2
    /\ \E i \in 1..Len(resp.body) : resp.body[i].id = "2"

\* C10: every song a request persisted has a non-empty title and a non-empty
\* artist.
C10_TitleArtistNonEmpty ==
    \A k \in 1..Len(created) :
        /\ created[k].body.title # <<>>
        /\ created[k].body.artist # <<>>

----------------------------------------------------------------------------
(* Properties of the health endpoint *)

\* C6: GET /test answers 200 whatever the store does: with no handle, with a
\* working handle and with a handle whose introspection raises.  An error
\* shows only in the database field, cut to 50 characters, and collections
\* holds at most 10 names.
C6_TestNeverFails ==
    /\ \A intro \in Introspections : ENABLED test_database(intro)
    /\ resp.req = "GET /test" =>
          /\ resp.status = 200
          /\ Len(resp.body.collections) <= CollectionsLimit
          /\ Len(resp.body.database) = 2 =>
                Len(resp.body.database[2]) <= ErrTextLimit
          /\ db = "None" =>
                resp.body.database = <<"Available but not initialized">>

C6_Witness ==
    /\ resp.req = "GET /test"
    /\ db # "None"
    /\ Len(resp.body.database) = 2
    /\ Len(resp.body.database[2]) = ErrTextLimit

----------------------------------------------------------------------------
(* Properties of the uploads *)

Started == {r \in Requests : up[r].pc # "idle"}

\* the successful POST /songs/upload requests so far
Uploaded == {k \in 1..Len(created) : created[k].req = "POST /songs/upload"}

\* C7: after uploads that ran one after the other, all successful, with
\* pairwise distinct original filenames, each returned audioUrl and coverUrl
\* serves exactly the bytes sent in the request that returned it.
C7_DistinctNamesKeepContent ==
    (/\ \A r \in Started :
           up[r].pc = "done" /\ up[r].status = 200 /\ up[r].during = {}
     /\ \A r \in Started, q \in Started :
           r # q =>
              /\ up[r].audio.filename # up[q].audio.filename
              /\ (up[r].cover # NoFile /\ up[q].cover # NoFile)
                     => up[r].cover.filename # up[q].cover.filename)
    => \A k \in Uploaded :
          LET u == up[created[k].r]
          IN  /\ fs[Served(created[k].body.audioUrl)] = u.audio.bytes
              /\ u.cover # NoFile =>
                     fs[Served(created[k].body.coverUrl)] = u.cover.bytes

\* C8: two uploads of the same original name in the same second that overlap
\* both succeed, both persist a Song with the same audioUrl, and once both
\* are over the file holds the bytes of the request that wrote last.
C8_CollidingUploadsLastWriteWins ==
    \A r \in Requests, q \in Requests :
        (/\ r # q
         /\ up[r].pc = "done" /\ up[q].pc = "done"
         /\ up[r].audio.filename = up[q].audio.filename
         /\ up[r].safe_audio_name = up[q].safe_audio_name
         /\ r \in up[q].during
         /\ up[r].status = 200 /\ up[q].status = 200)
        => LET path == AudioPath(up[r].safe_audio_name)
               url == AudioUrl(up[r].safe_audio_name)
           IN  /\ \E k \in Uploaded, l \in Uploaded :
                     /\ created[k].r = r /\ created[l].r = q
                     /\ created[k].id # created[l].id
                     /\ created[k].body.audioUrl = url
                     /\ created[l].body.audioUrl = url
               /\ fs[path] = up[writer[path]].audio.bytes

----------------------------------------------------------------------------
(* Properties of the whole service *)

\* C9: the collection only grows: identifiers are pairwise distinct, no
\* request removes a document or changes one, and the GET endpoints leave the
\* collection as it is.
C9_AppendOnlyUniqueIds ==
    /\ [](\A i \in 1..Len(song), j \in 1..Len(song) :
             i # j => /\ "_id" \in DOMAIN song[i]
                      /\ "_id" \in DOMAIN song[j]
                      /\ song[i]._id # song[j]._id)
    /\ [][/\ Len(song') >= Len(song)
          /\ \A i \in 1..Len(song) : song'[i] = song[i]
          /\ song' # song =>
                ~(read_root \/ list_songs \/ \E intro \in Introspections : test_database(intro))]_vars

C9_Witness ==
    /\ Listed
    /\ Len(song) = 3
    /\ \E k \in 1..Len(created) : created[k].req = "POST /songs"
    /\ \E k \in 1..Len(created) : created[k].req = "POST /songs/upload"

====
